---- MODULE Spec2Model ----
(***************************************************************************)
(* A model of the meander tree map (React + mapbox-gl), after the latest   *)
(* App component (src/unnamed/part_001, lines 149-648) and its form        *)
(* (src/unnamed/part_000, lines 55-244).                                   *)
(*                                                                         *)
(* React state and refs are the variables.  An event handler, a timer      *)
(* callback or the continuation of an await is one action; the re-render   *)
(* and the effects that a state change triggers are part of the action     *)
(* that made the change.  A remote call or a cluster-leaf lookup that is   *)
(* awaited is a record "in flight" until the action that resumes the       *)
(* awaiting function.                                                      *)
(*                                                                         *)
(* The older App component with map modes and hover popups                 *)
(* (src/unnamed/part_002, lines 198-518) is modelled next to it, on        *)
(* variables of its own and on the store, the form and the remote calls it *)
(* has in common with the latest one.                                      *)
(***************************************************************************)
EXTENDS Naturals, Sequences, FiniteSets

VARIABLES
  mapLoaded,          \* useState(false): the map's "load" event was seen
  dataLoaded,         \* useState(false): the initial fetch has completed
  layersLoaded,       \* useState(false): source and layers were added
  treeLocations,      \* useState([]): the features array of the collection
  srcData,            \* what the "trees" geojson source was last fed (setData)
  nextId,             \* backend: the location_id the next create is given
  viewport,           \* the map's camera: [zoom, cells]
  popup,              \* tappedPopupRef: the one popup and its remove closure
  isFormVisible,      \* useState(false)
  newTreeCoordinates, \* useState([]): 0 is [], otherwise the cell tapped
  inflight,           \* remote creates/removes awaiting their response
  highlightedTree,    \* useState(null)
  pointFilter,        \* filter of layer "highlighted-point": a common_name
  clusterFilter,      \* filter of layer "highlighted-cluster": cluster ids
  hlRuns,             \* highlightTree calls suspended at an await
  hlTimer,            \* the current effect's debounced highlight is pending
  hlOrphans,          \* pending debounced highlights of torn-down effects
  isTreeListVisible,  \* useState(false)
  visibleTrees,       \* useState([]): the summary, [name, members] entries
  vtRuns,             \* updateVisibleTrees calls suspended at an await
  vtTimer,            \* the current effect's debounced update is pending
  vtOrphans,          \* pending debounced updates of torn-down effects
  lastTapRef,         \* useRef({point: {x: 0, y: 0}, time: 0}): the remembered tap
  clock,              \* new Date().getTime() at the latest touch, in ms
  listeners,          \* handlers registered on the map and the window, counted by event
  mounted,            \* the App component is mounted
  mapMode,            \* part_002 useState(0): NORMAL_MODE, ADD_MODE or DELETE_MODE
  modeListeners,      \* part_002: the mapMode effect's handlers registered on the map
  currentPopupLocation, \* part_002 useState([]): 0 is [] or null, otherwise a location_id
  popupRef,           \* part_002 popupRef: the hover popup
  pointer,            \* part_002: the point feature under the pointer, 0 for none
  leaveTimers,        \* part_002: pending setTimeout(removeTreePopup, 50) calls
  last                \* history: the handler that ran last, and its outcome

vars == << mapLoaded, dataLoaded, layersLoaded, treeLocations, srcData, nextId,
           viewport, popup, isFormVisible, newTreeCoordinates, inflight,
           highlightedTree, pointFilter, clusterFilter, hlRuns,
           hlTimer, hlOrphans, isTreeListVisible, visibleTrees, vtRuns,
           vtTimer, vtOrphans, lastTapRef, clock, listeners, mounted,
           mapMode, modeListeners, currentPopupLocation, popupRef, pointer,
           leaveTimers, last >>

startVars == << mapLoaded, dataLoaded, layersLoaded >>
editVars  == << popup, isFormVisible, newTreeCoordinates, inflight >>
hlVars    == << highlightedTree, pointFilter, clusterFilter, hlRuns, hlTimer, hlOrphans >>
vtVars    == << isTreeListVisible, visibleTrees, vtRuns, vtTimer, vtOrphans >>
tapVars   == << lastTapRef, clock >>
lifeVars  == << listeners, mounted >>
modeVars  == << mapMode, modeListeners >>
hoverVars == << currentPopupLocation, popupRef, pointer, leaveTimers >>

----------------------------------------------------------------------------
(* Bounds *)

MaxId == 3          \* location ids the backend hands out
MaxCell == 2        \* map cells (places features can be)
MaxInFlight == 2    \* remote calls awaited at once
MaxRuns == 2        \* highlight / summary computations suspended at once
MaxOrphans == 1     \* pending timers of torn-down effects, per kind and key
MaxClock == 1600    \* the time of the latest touch that is looked at, in ms
MaxTimers == 2      \* pending timers of handlePointLeave (part_002)

\* new Date().getTime() when the page has loaded: long after time 0
PageLoad == 1000

\* The milliseconds between one touch and the next, and where touches land on
\* the screen, in pixels.
TapGaps == {0, 150, 200, 300}
TapPoints == [x : {0, 5, 10, 11}, y : {0, 11}]

Ids == 1..MaxId
Cells == 1..MaxCell
Names == {"oak", "maple"}
Null == "null"      \* JavaScript null (highlightedTree)
Blank == ""         \* the empty string: '' in the form, "" in the filters

\* Text the user types, as sequences of characters.
Texts == { <<>>, <<" ">>, <<"b">>, <<"b", " ">> }
NoText == <<"null">>      \* window.prompt cancelled: null

----------------------------------------------------------------------------
(* Data *)

\* treeToFeature: a GeoJSON point feature; its coordinates are a cell.
treeToFeature(tree) ==
  [location_id |-> tree.location_id, common_name |-> tree.common_name,
   cell |-> tree.cell]

Feature(id, name, cell) ==
  treeToFeature([location_id |-> id, common_name |-> name, cell |-> cell])

\* What GET /trees may answer: two trees at one place.
InitialLoads ==
  { << Feature(1, "oak", 1), Feature(2, "maple", 1) >> }

Range(s) == { s[i] : i \in 1..Len(s) }

\* String.prototype.trimEnd
RECURSIVE trimEnd(_)
trimEnd(s) ==
  IF s = <<>> THEN s
  ELSE IF s[Len(s)] = " " THEN trimEnd(SubSeq(s, 1, Len(s) - 1))
  ELSE s

\* JavaScript truthiness of a string or null
Truthy(s) == s # NoText /\ s # <<>>

NoReq == [op |-> "none", id |-> 0, common_name |-> Blank, cell |-> 0,
          source |-> <<>>, captured |-> <<>>]

\* outcome: how the promise of an async handler was settled, as its caller sees it
Event(op, req, before) ==
  [op |-> op, req |-> req, before |-> before, outcome |-> "none"]

Settled(op, req, before, outcome) == [Event(op, req, before) EXCEPT !.outcome = outcome]

\* How the continuation of a run's await ends: rejected, applied, or suspended
\* at the next lookup.
Resumed(kind, run) ==
  IF run.answer.error THEN kind \o "Rejected"
  ELSE IF Len(run.todo) = 1 THEN kind \o "Applied"
  ELSE kind \o "Lookup"

\* What a run was started for.
Token(run) == [key |-> IF "key" \in DOMAIN run THEN run.key ELSE Blank, view |-> run.view]

----------------------------------------------------------------------------
(* The clustered "trees" source, as the app configures and queries it *)

Zooms == {"near", "far"}     \* above / at or below clusterMaxZoom
Views == { Cells, {1} }      \* the whole map, or only the first cell on screen
\* A source is drawn from tiles, and what lies on the seam of two tiles is in
\* both: queryRenderedFeatures returns it once per tile.  `seam` holds the cells
\* that lie on a seam in this view.
Viewports == [zoom : Zooms, cells : Views, seam : {{}}]

\* new mapboxgl.Map({center, zoom: 18}): zoomed in past clusterMaxZoom
InitialViewport == [zoom |-> "near", cells |-> Cells, seam |-> {}]

CellMembers(data, c) == SelectSeq(data, LAMBDA f : f.cell = c)

\* cluster: true: at a far zoom, two or more features of one cell are drawn as one
\* cluster (its cluster_id is the cell); everything else is an unclustered point.
IsClustered(data, v, c) == v.zoom = "far" /\ Len(CellMembers(data, c)) >= 2

PointItem(f) == [cluster |-> FALSE, id |-> f.location_id, common_name |-> f.common_name]
ClusterItem(c) == [cluster |-> TRUE, id |-> c, common_name |-> Blank]

\* queryRenderedFeatures({layers: ["unclustered-point"]})
RenderedPoints(data, v) ==
  LET shown == SelectSeq(data, LAMBDA f : f.cell \in v.cells /\ ~IsClustered(data, v, f.cell))
      again == IF v.seam = {} THEN <<>>
               ELSE SelectSeq(shown, LAMBDA f : f.cell \in v.seam)
  IN  [i \in 1..Len(shown) |-> PointItem(shown[i])]
      \o [i \in 1..Len(again) |-> PointItem(again[i])]

\* queryRenderedFeatures({layers: ["clusters"]})
RECURSIVE ClustersFrom(_, _, _)
ClustersFrom(data, v, c) ==
  IF c > MaxCell THEN <<>>
  ELSE (IF c \in v.cells /\ IsClustered(data, v, c) THEN << ClusterItem(c) >> ELSE <<>>)
       \o ClustersFrom(data, v, c + 1)

RenderedClusters(data, v) ==
  LET shown == ClustersFrom(data, v, 1)
  IN  IF v.seam = {} THEN shown
      ELSE shown \o SelectSeq(shown, LAMBDA it : it.id \in v.seam)

\* clickedOnFeature / the "unclustered-point" layer listeners: the features under
\* a pointer event at cell c
FeaturesAt(data, v, c) ==
  IF c \notin v.cells THEN <<>>
  ELSE SelectSeq(RenderedPoints(data, v) \o RenderedClusters(data, v),
                 LAMBDA it : IF it.cluster THEN it.id = c
                             ELSE \E f \in Range(data) : f.location_id = it.id /\ f.cell = c)

\* A bug: the leaves are asked for with a limit of two, not Infinity.
getClusterFeaturesLimited(data, clusterId) ==
  LET leaves == CellMembers(data, clusterId)
      some == SubSeq(leaves, 1, 2)
  IN  IF Len(leaves) >= 2
      THEN [error |-> FALSE, leaves |-> [i \in 1..Len(some) |-> PointItem(some[i])]]
      ELSE [error |-> TRUE, leaves |-> <<>>]

\* getClusterFeatures: source.getClusterLeaves(clusterId, Infinity, 0, cb).  The
\* request is answered from the data the source held when the request was sent;
\* an id that names no cluster there is an error (the promise rejects).
getClusterFeatures(data, clusterId) ==
  LET leaves == CellMembers(data, clusterId)
  IN  IF Len(leaves) >= 2
      THEN [error |-> FALSE, leaves |-> [i \in 1..Len(leaves) |-> PointItem(leaves[i])]]
      ELSE [error |-> TRUE, leaves |-> <<>>]

NoAnswer == [error |-> FALSE, leaves |-> <<>>]

----------------------------------------------------------------------------
(* highlightTree: the highlight filters of the selected common_name *)

ItemIds(items) == [i \in 1..Len(items) |-> items[i].id]

\* A highlightTree call suspended at "await getClusterFeatures(...)": the clusters
\* still to look up (the first one is being looked up), the ids pushed so far;
\* `view` remembers the viewport the call read its clusters from.
HlRun(treeName, view, todo, acc, data) ==
  [key |-> treeName, view |-> view, todo |-> todo, acc |-> acc,
   answer |-> getClusterFeatures(data, Head(todo))]

\* The two setFilter calls that end highlightTree.
ApplyHighlight(hl, treeName, clusterIdsToHighlight) ==
  [hl EXCEPT !.pointFilter = treeName, !.clusterFilter = Range(clusterIdsToHighlight)]

\* A bug: the point filter is set before the clusters are looked up, the cluster
\* filter after.
highlightTreePointFirst(hl, treeName, data, v) ==
  LET allClusters == ItemIds(RenderedClusters(data, v))
      first == [hl EXCEPT !.pointFilter = treeName]
  IN  IF allClusters = <<>>
      THEN ApplyHighlight(hl, treeName, <<>>)
      ELSE [first EXCEPT !.hlRuns = Append(@, HlRun(treeName, v, allClusters, <<>>, data))]

\* highlightTree(treeName) up to its first await.  hl is the highlight state
\* [pointFilter, clusterFilter, hlRuns]; the result is that state afterwards.
highlightTree(hl, treeName, data, v) ==
  LET allClusters == ItemIds(RenderedClusters(data, v))
  IN  IF allClusters = <<>>
      THEN ApplyHighlight(hl, treeName, <<>>)
      ELSE [hl EXCEPT !.hlRuns = Append(@, HlRun(treeName, v, allClusters, <<>>, data))]

\* The continuation of the await, for the run whose lookup was sent first.
highlightTreeResume(hl, data) ==
  LET run  == Head(hl.hlRuns)
      id   == Head(run.todo)
      rest == Tail(run.todo)
      acc  == IF \E i \in 1..Len(run.answer.leaves) :
                    run.answer.leaves[i].common_name = run.key
              THEN Append(run.acc, id) ELSE run.acc
      left == [hl EXCEPT !.hlRuns = Tail(@)]
  IN  IF run.answer.error THEN left                           \* rejected: nothing is set
      ELSE IF rest = <<>> THEN ApplyHighlight(left, run.key, acc)
      ELSE [left EXCEPT !.hlRuns = Append(@, HlRun(run.key, run.view, rest, acc, data))]

\* A bug: only the point filter is reset.
ClearHighlightPointOnly(hl) == [hl EXCEPT !.pointFilter = Blank]

\* The cleanup of the highlighted-tree effect: both filters match nothing.
ClearHighlight(hl) == [hl EXCEPT !.pointFilter = Blank, !.clusterFilter = {}]

----------------------------------------------------------------------------
(* updateVisibleTrees: the summary of the trees on screen *)

\* Array.from(new Set(ids)).map(id => trees.find(...)): first of each location_id
RECURSIVE Dedup(_)
Dedup(trees) ==
  IF trees = <<>> THEN <<>>
  ELSE << Head(trees) >> \o Dedup(SelectSeq(Tail(trees), LAMBDA t : t.id # Head(trees).id))

\* if (!groups[common_name]) groups[common_name] = []; groups[common_name].push(cluster)
Push(groups, common_name, cluster) ==
  IF \E i \in 1..Len(groups) : groups[i].name = common_name
  THEN [i \in 1..Len(groups) |->
          IF groups[i].name = common_name
          THEN [groups[i] EXCEPT !.members = Append(@, cluster)] ELSE groups[i]]
  ELSE Append(groups, [name |-> common_name, members |-> << cluster >>])

\* features.forEach(...): one push of `cluster` per feature
RECURSIVE PushAll(_, _, _)
PushAll(groups, features, cluster) ==
  IF features = <<>> THEN groups
  ELSE PushAll(Push(groups, Head(features).common_name, cluster), Tail(features), cluster)

\* A bug: a sort that is not stable (of two groups of one size the later comes
\* first).
RECURSIVE InsertSortedUnstable(_, _)
InsertSortedUnstable(sorted, e) ==
  IF sorted = <<>> THEN << e >>
  ELSE IF Len(Head(sorted).members) > Len(e.members)
       THEN << Head(sorted) >> \o InsertSortedUnstable(Tail(sorted), e)
       ELSE << e >> \o sorted

\* Array.prototype.sort((a, b) => b[1].length - a[1].length): stable
RECURSIVE InsertSorted(_, _)
InsertSorted(sorted, e) ==
  IF sorted = <<>> THEN << e >>
  ELSE IF Len(Head(sorted).members) >= Len(e.members)
       THEN << Head(sorted) >> \o InsertSorted(Tail(sorted), e)
       ELSE << e >> \o sorted

RECURSIVE SortGroups(_)
SortGroups(groups) ==
  IF groups = <<>> THEN <<>>
  ELSE InsertSorted(SortGroups(SubSeq(groups, 1, Len(groups) - 1)), groups[Len(groups)])

\* The reduce over trees.concat(clusters), up to the first cluster (the points
\* need no lookup): what is left to do and the groups so far.
RECURSIVE ReducePoints(_, _)
ReducePoints(todo, groups) ==
  IF todo = <<>> \/ Head(todo).cluster THEN [todo |-> todo, groups |-> groups]
  ELSE ReducePoints(Tail(todo), PushAll(groups, << Head(todo) >>, Head(todo)))

VtRun(view, todo, groups, data) ==
  [view |-> view, todo |-> todo, groups |-> groups,
   answer |-> getClusterFeatures(data, Head(todo).id)]

\* A bug: a call that finds nothing on screen leaves the summary as it was.
ReduceSkipsEmpty(vt, view, todo, groups, data) ==
  LET at == ReducePoints(todo, groups)
  IN  IF at.todo = <<>>
      THEN (IF at.groups = <<>> THEN vt
            ELSE [vt EXCEPT !.visibleTrees = SortGroups(at.groups)])
      ELSE [vt EXCEPT !.vtRuns = Append(@, VtRun(view, at.todo, at.groups, data))]

\* Where the reduce stands: finished (setVisibleTrees) or suspended at a lookup.
\* vt is the summary state [visibleTrees, vtRuns]; `view` remembers the viewport
\* the call read its features from.
Reduce(vt, view, todo, groups, data) ==
  LET at == ReducePoints(todo, groups)
  IN  IF at.todo = <<>>
      THEN [vt EXCEPT !.visibleTrees = SortGroups(at.groups)]
      ELSE [vt EXCEPT !.vtRuns = Append(@, VtRun(view, at.todo, at.groups, data))]

\* updateVisibleTrees() up to its first lookup
updateVisibleTrees(vt, data, v) ==
  Reduce(vt, v, Dedup(RenderedPoints(data, v)) \o RenderedClusters(data, v), <<>>, data)

\* The continuation of the await, for the run whose lookup was sent first.
updateVisibleTreesResume(vt, data) ==
  LET run  == Head(vt.vtRuns)
      left == [vt EXCEPT !.vtRuns = Tail(@)]
  IN  IF run.answer.error THEN left                          \* rejected: nothing is set
      ELSE Reduce(left, run.view, Tail(run.todo),
                  PushAll(run.groups, run.answer.leaves, Head(run.todo)), data)

----------------------------------------------------------------------------
(* The state after construction *)

NoPopup == [open |-> FALSE, id |-> 0, captured |-> <<>>]

\* The events the map event handlers effect and the popup effect listen to: the
\* window's keydown, six map events, and mousedown and touchstart on the layer
\* "unclustered-point".
MapHandlers == {"keydown", "mouseenter", "mouseleave", "mousedown", "zoomstart",
                "touchstart", "dblclick"}
PopupHandlers == {"point mousedown", "point touchstart"}
NoListeners == [e \in MapHandlers \cup PopupHandlers |-> 0]

\* part_002: const NORMAL_MODE = 0, ADD_MODE = 1, DELETE_MODE = 2
NORMAL_MODE == 0
ADD_MODE == 1
DELETE_MODE == 2

\* part_002: new mapboxgl.Popup(...), not added to the map
NoHoverPopup == [open |-> FALSE, id |-> 0]

\* useRef({point: {x: 0, y: 0}, time: 0})
NoTap == [point |-> [x |-> 0, y |-> 0], time |-> 0]

Init ==
  /\ mapLoaded = FALSE /\ dataLoaded = FALSE /\ layersLoaded = FALSE
  /\ treeLocations = <<>> /\ srcData = <<>> /\ nextId = 1
  /\ viewport = InitialViewport
  /\ popup = NoPopup
  /\ isFormVisible = FALSE /\ newTreeCoordinates = 0 /\ inflight = <<>>
  /\ highlightedTree = Null /\ pointFilter = Blank /\ clusterFilter = {}
  /\ hlRuns = <<>> /\ hlTimer = FALSE /\ hlOrphans = [k \in Names |-> 0]
  /\ isTreeListVisible = FALSE /\ visibleTrees = <<>>
  /\ vtRuns = <<>> /\ vtTimer = FALSE /\ vtOrphans = 0
  /\ lastTapRef = NoTap /\ clock = PageLoad
  /\ listeners = NoListeners /\ mounted = TRUE
  /\ mapMode = NORMAL_MODE /\ modeListeners = {}
  /\ currentPopupLocation = 0 /\ popupRef = NoHoverPopup
  /\ pointer = 0 /\ leaveTimers = 0
  /\ last = Event("init", NoReq, <<>>)

HL == [pointFilter |-> pointFilter, clusterFilter |-> clusterFilter, hlRuns |-> hlRuns]
VT == [visibleTrees |-> visibleTrees, vtRuns |-> vtRuns]

SetHL(hl) ==
  /\ Len(hl.hlRuns) <= MaxRuns
  /\ pointFilter' = hl.pointFilter
  /\ clusterFilter' = hl.clusterFilter
  /\ hlRuns' = hl.hlRuns

SetVT(vt) ==
  /\ Len(vt.vtRuns) <= MaxRuns
  /\ visibleTrees' = vt.visibleTrees
  /\ vtRuns' = vt.vtRuns

----------------------------------------------------------------------------
(* Start-up: the load map, load data, ready and load layers effects *)

\* mapRef.current.on(event, handler) / window.addEventListener, for each event
On(l, events) == [e \in DOMAIN l |-> IF e \in events THEN l[e] + 1 ELSE l[e]]

\* mapRef.current.off(event, handler) with the handler that was registered
Off(l, events) ==
  [e \in DOMAIN l |-> IF e \in events /\ l[e] > 0 THEN l[e] - 1 ELSE l[e]]

\* The map event handlers effect, layersLoaded: its seven registrations.
MapHandlersMount(l) == On(l, MapHandlers)

\* The popup effect, layersLoaded: handlePointEntry on the point layer.
PopupMount(l) == On(l, PopupHandlers)

\* A bug: the layers are added and the handlers registered without waiting for
\* the map and the data.
LoadLayersEager(ready, locations) ==
  /\ layersLoaded' = TRUE
  /\ listeners' = PopupMount(MapHandlersMount(listeners))
  /\ srcData' = locations
  /\ SetVT(IF isTreeListVisible
           THEN updateVisibleTrees(VT, locations, viewport) ELSE VT)

\* The effects that run once mapLoaded and dataLoaded both hold: the source and
\* layers are added, the source is fed (data-change listener), and the visible
\* trees effect mounts.
LoadLayers(ready, locations) ==
  /\ layersLoaded' = ready
  /\ listeners' = IF ready THEN PopupMount(MapHandlersMount(listeners)) ELSE listeners
  /\ srcData' = IF ready THEN locations ELSE srcData
  /\ SetVT(IF ready /\ isTreeListVisible
           THEN updateVisibleTrees(VT, locations, viewport) ELSE VT)

\* map.on("load", ...)
MapLoad ==
  /\ ~mapLoaded
  /\ mapLoaded' = TRUE
  /\ LoadLayers(dataLoaded, treeLocations)
  /\ last' = Event("load", NoReq, <<>>)
  /\ UNCHANGED << dataLoaded, treeLocations, nextId, viewport, tapVars, editVars, hlVars,
                  mounted, modeVars, hoverVars,
                  isTreeListVisible, vtTimer, vtOrphans >>

\* fetchData: GET /trees answered with `locations`
FetchData(locations) ==
  /\ ~dataLoaded
  /\ dataLoaded' = TRUE
  /\ treeLocations' = locations
  /\ nextId' = Len(locations) + 1
  /\ LoadLayers(mapLoaded, locations)
  /\ last' = Event("fetch", NoReq, <<>>)
  /\ UNCHANGED << mapLoaded, viewport, tapVars, editVars, hlVars,
                  mounted, modeVars, hoverVars,
                  isTreeListVisible, vtTimer, vtOrphans >>

----------------------------------------------------------------------------
(* The viewport: moveend / zoomend *)

\* The camera comes to rest at v.  zoomstart closes the popup; each mounted
\* debounced listener (re)starts its 300 ms timer.
MoveEnd(v) ==
  /\ viewport' = v
  /\ popup' = IF layersLoaded /\ v.zoom # viewport.zoom THEN NoPopup ELSE popup
  /\ hlTimer' = (hlTimer \/ (layersLoaded /\ highlightedTree # Null))
  /\ vtTimer' = (vtTimer \/ (layersLoaded /\ isTreeListVisible))
  /\ last' = Event("moveend", NoReq, <<>>)
  /\ UNCHANGED << startVars, lifeVars, modeVars, hoverVars, tapVars, treeLocations, srcData, nextId,
                  isFormVisible, newTreeCoordinates, inflight, highlightedTree,
                  pointFilter, clusterFilter, hlRuns, hlOrphans,
                  isTreeListVisible, visibleTrees, vtRuns, vtOrphans >>

----------------------------------------------------------------------------
(* Selection: handleTreeListClick and the highlighted-tree effect *)

SummaryNames == { visibleTrees[i].name : i \in 1..Len(visibleTrees) }

\* The form's overlay covers the map and the list while the form is shown.
PointerFree == ~isFormVisible

\* A bug: the toggle the wrong way round.
ToggleInverted(treeName, highlighted) ==
  IF treeName = highlighted THEN treeName ELSE Null

\* A bug: the name clicked is selected whatever was selected.
ToggleSetsOnly(treeName, highlighted) == treeName

\* What a click on a summary entry finds: the selection and the filters, whether
\* the click before was on the same entry, and the selection that one found.
Selecting(treeName) ==
  [was |-> highlightedTree,
   twice |-> last.op = "select" /\ last.req.common_name = treeName,
   start |-> IF last.op = "select" THEN last.before.was ELSE Null,
   pointFilter |-> pointFilter, clusterFilter |-> clusterFilter]

\* handleTreeListClick: the toggle
Toggle(treeName, highlighted) == IF treeName = highlighted THEN Null ELSE treeName

\* The effect's cleanup for the old key: listeners off (a timer already pending
\* is not cancelled), both filters reset.
HighlightCleanup(hl, old) == IF layersLoaded /\ old # Null THEN ClearHighlight(hl) ELSE hl

\* The effect's body for the new key: highlightTree(new) at once.
HighlightMount(hl, new) ==
  IF layersLoaded /\ new # Null THEN highlightTree(hl, new, srcData, viewport) ELSE hl

\* A click on the summary entry `treeName` (the panel is on screen only while
\* isTreeListVisible), then the re-run of the effect.
HandleTreeListClick(treeName) ==
  /\ PointerFree /\ isTreeListVisible
  /\ treeName \in SummaryNames
  /\ highlightedTree' = Toggle(treeName, highlightedTree)
  /\ hlTimer' = FALSE
  /\ hlOrphans' = IF hlTimer THEN [hlOrphans EXCEPT ![highlightedTree] = @ + 1]
                  ELSE hlOrphans
  /\ \A k \in Names : hlOrphans'[k] <= MaxOrphans
  /\ SetHL(HighlightMount(HighlightCleanup(HL, highlightedTree), highlightedTree'))
  /\ last' = Event("select", [NoReq EXCEPT !.common_name = treeName], Selecting(treeName))
  /\ UNCHANGED << startVars, lifeVars, modeVars, hoverVars, tapVars, treeLocations, srcData, nextId, viewport, editVars, vtVars >>

\* What a highlightTree call or its continuation finds: the two filters, and
\* the suspended call that is resumed (none when the call starts).
Highlighting(runs) ==
  [pointFilter |-> pointFilter, clusterFilter |-> clusterFilter, runs |-> runs]

\* The current effect's debounced highlightTree(highlightedTree) fires.
HlTimerFire ==
  /\ hlTimer
  /\ hlTimer' = FALSE
  /\ SetHL(highlightTree(HL, highlightedTree, srcData, viewport))
  /\ last' = Event("hlTimer", [NoReq EXCEPT !.common_name = highlightedTree],
                   Highlighting(<<>>))
  /\ UNCHANGED << startVars, lifeVars, modeVars, hoverVars, tapVars, treeLocations, srcData, nextId, viewport, editVars,
                  highlightedTree, hlOrphans, vtVars >>

\* A debounced highlightTree(k) of an effect that was cleaned up fires.
HlOrphanFire(k) ==
  /\ hlOrphans[k] > 0
  /\ hlOrphans' = [hlOrphans EXCEPT ![k] = @ - 1]
  /\ SetHL(highlightTree(HL, k, srcData, viewport))
  /\ last' = Event("hlOrphan", [NoReq EXCEPT !.common_name = k], Highlighting(<<>>))
  /\ UNCHANGED << startVars, lifeVars, modeVars, hoverVars, tapVars, treeLocations, srcData, nextId, viewport, editVars,
                  highlightedTree, hlTimer, vtVars >>

\* The oldest leaf lookup of a highlightTree call is answered.
HlLookupDone ==
  /\ hlRuns # <<>>
  /\ SetHL(highlightTreeResume(HL, srcData))
  /\ last' = Event(Resumed("hl", Head(hlRuns)), Token(Head(hlRuns)),
                   Highlighting(<< Head(hlRuns) >>))
  /\ UNCHANGED << startVars, lifeVars, modeVars, hoverVars, tapVars, treeLocations, srcData, nextId, viewport, editVars,
                  highlightedTree, hlTimer, hlOrphans, vtVars >>

----------------------------------------------------------------------------
(* The summary panel: the visible trees effect *)

\* What an updateVisibleTrees call finds: the summary shown.
Summarising == [visibleTrees |-> visibleTrees]

\* The panel button: setIsTreeListVisible(!isTreeListVisible), then the effect.
TogglePanel ==
  /\ PointerFree
  /\ isTreeListVisible' = ~isTreeListVisible
  /\ vtTimer' = FALSE
  /\ vtOrphans' = IF vtTimer THEN vtOrphans + 1 ELSE vtOrphans
  /\ vtOrphans' <= MaxOrphans
  /\ SetVT(IF layersLoaded /\ isTreeListVisible'
           THEN updateVisibleTrees(VT, srcData, viewport) ELSE VT)
  /\ last' = Event("panel", NoReq, Summarising)
  /\ UNCHANGED << startVars, lifeVars, modeVars, hoverVars, tapVars, treeLocations, srcData, nextId, viewport, editVars, hlVars >>

\* The current effect's debounced updateVisibleTrees fires.
VtTimerFire ==
  /\ vtTimer
  /\ vtTimer' = FALSE
  /\ SetVT(updateVisibleTrees(VT, srcData, viewport))
  /\ last' = Event("vtTimer", NoReq, Summarising)
  /\ UNCHANGED << startVars, lifeVars, modeVars, hoverVars, tapVars, treeLocations, srcData, nextId, viewport, editVars, hlVars,
                  isTreeListVisible, vtOrphans >>

\* A debounced updateVisibleTrees of an effect that was cleaned up fires.
VtOrphanFire ==
  /\ vtOrphans > 0
  /\ vtOrphans' = vtOrphans - 1
  /\ SetVT(updateVisibleTrees(VT, srcData, viewport))
  /\ last' = Event("vtOrphan", NoReq, Summarising)
  /\ UNCHANGED << startVars, lifeVars, modeVars, hoverVars, tapVars, treeLocations, srcData, nextId, viewport, editVars, hlVars,
                  isTreeListVisible, vtTimer >>

\* The oldest leaf lookup of an updateVisibleTrees call is answered.
VtLookupDone ==
  /\ vtRuns # <<>>
  /\ SetVT(updateVisibleTreesResume(VT, srcData))
  /\ last' = Event(Resumed("vt", Head(vtRuns)), Token(Head(vtRuns)), <<>>)
  /\ UNCHANGED << startVars, lifeVars, modeVars, hoverVars, tapVars, treeLocations, srcData, nextId, viewport, editVars, hlVars,
                  isTreeListVisible, vtTimer, vtOrphans >>

----------------------------------------------------------------------------
(* Popups and the add form *)

\* mousedown / touchstart on the unclustered point of feature f: createTreePopup.
\* The close button's listener keeps removeTree as the effect defined it, with
\* the treeLocations of that render.
\* What a press on the point of feature f finds: whether the popup is open on f.
Entering(f) == [same |-> popup.open /\ popup.id = f.location_id]

\* What handlePointEntry does to the popup: createTreePopup places it, writes its
\* content anew and adds it to the map, whether or not it is already open on the
\* feature pressed.
handlePointEntryOutcome(openOnSame) == IF openOnSame THEN "created" ELSE "created"

HandlePointEntry(f) ==
  /\ layersLoaded /\ PointerFree
  /\ f \in Range(srcData)
  /\ \E i \in 1..Len(RenderedPoints(srcData, viewport)) :
        RenderedPoints(srcData, viewport)[i].id = f.location_id
  /\ popup' = [open |-> TRUE, id |-> f.location_id, captured |-> treeLocations]
  /\ last' = Settled("popup", NoReq, Entering(f),
                     handlePointEntryOutcome(Entering(f).same))
  /\ UNCHANGED << startVars, lifeVars, modeVars, hoverVars, tapVars, treeLocations, srcData, nextId, viewport,
                  isFormVisible, newTreeCoordinates, inflight, hlVars, vtVars >>

\* handleMapClick: mousedown away from every feature closes the popup.
HandleMapClick ==
  /\ layersLoaded /\ PointerFree
  /\ popup.open
  /\ popup' = NoPopup
  /\ last' = Event("mapClick", NoReq, <<>>)
  /\ UNCHANGED << startVars, lifeVars, modeVars, hoverVars, tapVars, treeLocations, srcData, nextId, viewport,
                  isFormVisible, newTreeCoordinates, inflight, hlVars, vtVars >>

\* clickedOnFeature(point): a point or a cluster is drawn where the event landed
clickedOnFeature(c) == FeaturesAt(srcData, viewport, c) # <<>>

\* What a pointer event met: where it landed, when, and the state it found.
Gesture(c, point, time) ==
  [cell |-> c, point |-> point, time |-> time, onFeature |-> clickedOnFeature(c),
   lastTap |-> lastTapRef, formWas |-> isFormVisible]

\* handleDoubleTouch as the "dblclick" listener, at cell c
HandleDoubleTouch(c) ==
  /\ layersLoaded /\ PointerFree
  /\ newTreeCoordinates' = c
  /\ isFormVisible' = TRUE
  /\ last' = Event("doubleTouch", NoReq, Gesture(c, NoTap.point, clock))
  /\ UNCHANGED << startVars, lifeVars, modeVars, hoverVars, tapVars, treeLocations, srcData, nextId, viewport, popup,
                  inflight, hlVars, vtVars >>

tapThresholdPixels == 10

Distance(a, b) == IF a >= b THEN a - b ELSE b - a

isSameLocation(point1, point2) ==
  /\ Distance(point1.x, point2.x) <= tapThresholdPixels
  /\ Distance(point1.y, point2.y) <= tapThresholdPixels

\* const isDoubleTapTime = tapLength < 200 && tapLength > 0
doubleTapWindow == 200

\* A bug: a tap exactly at the end of the window counts.
isDoubleTapTimeInclusive(tapLength) == tapLength <= doubleTapWindow /\ tapLength > 0

isDoubleTapTime(tapLength) == tapLength < doubleTapWindow /\ tapLength > 0

\* A bug (the older handleMapTouch, part_004): every touch on the empty map is
\* remembered, a double tap too.
RememberedTapAlways(isDoubleTap, lastTap, tap) == tap

\* handleMapTouch on the empty map: lastTapRef.current is assigned in the else
\* branch of if (isDoubleTap) only.
RememberedTap(isDoubleTap, lastTap, tap) == IF isDoubleTap THEN lastTap ELSE tap

\* The unclustered point a touch landed on, for the layer's touchstart listener
\* (handlePointEntry takes event.features[0]); 0 if there is none.
TouchedPoint(c) ==
  LET points == SelectSeq(FeaturesAt(srcData, viewport, c), LAMBDA it : ~it.cluster)
  IN  IF points = <<>> THEN 0 ELSE Head(points).id

\* "touchstart" at cell c, at pixel currentPoint, `gap` ms after the touch before:
\* handleMapTouch, and handlePointEntry when the touch is on an unclustered
\* point.
HandleMapTouch(gap, currentPoint, c) ==
  LET currentTime == clock + gap
      tapLength == currentTime - lastTapRef.time
      isDoubleTap == /\ isDoubleTapTime(tapLength)
                     /\ isSameLocation(currentPoint, lastTapRef.point)
  IN  /\ layersLoaded /\ PointerFree
      /\ currentTime <= MaxClock
      /\ clock' = currentTime
      /\ IF ~clickedOnFeature(c)
         THEN /\ popup' = NoPopup
              /\ IF isDoubleTap
                 THEN /\ newTreeCoordinates' = c
                      /\ isFormVisible' = TRUE
                 ELSE UNCHANGED << newTreeCoordinates, isFormVisible >>
              /\ lastTapRef' = RememberedTap(isDoubleTap, lastTapRef,
                                             [point |-> currentPoint, time |-> currentTime])
         ELSE /\ popup' = IF TouchedPoint(c) = 0 THEN popup
                          ELSE [open |-> TRUE, id |-> TouchedPoint(c),
                                captured |-> treeLocations]
              /\ UNCHANGED << lastTapRef, newTreeCoordinates, isFormVisible >>
      /\ last' = Event("touch", NoReq, Gesture(c, currentPoint, currentTime))
      /\ UNCHANGED << startVars, lifeVars, modeVars, hoverVars, treeLocations, srcData, nextId, viewport,
                      inflight, hlVars, vtVars >>

\* handleAddTreeCancel (the form's Cancel button)
HandleAddTreeCancel ==
  /\ isFormVisible
  /\ newTreeCoordinates' = 0
  /\ isFormVisible' = FALSE
  /\ last' = Event("cancel", NoReq, <<>>)
  /\ UNCHANGED << startVars, lifeVars, modeVars, hoverVars, tapVars, treeLocations, srcData, nextId, viewport, popup,
                  inflight, hlVars, vtVars >>

\* handleEscapeKey (keydown on the window, key "Escape")
\* A bug: the coordinates of the add in progress are kept.
DismissedKeepsCoordinates ==
  [popup |-> NoPopup, newTreeCoordinates |-> newTreeCoordinates, isFormVisible |-> FALSE]

\* closePopup(); setNewTreeCoordinates([]); setIsFormVisible(false)
Dismissed == [popup |-> NoPopup, newTreeCoordinates |-> 0, isFormVisible |-> FALSE]

\* What the Escape key finds.
Dismissable ==
  [popup |-> popup, newTreeCoordinates |-> newTreeCoordinates,
   isFormVisible |-> isFormVisible, treeLocations |-> treeLocations,
   highlightedTree |-> highlightedTree]

\* The Escape key is pressed: handleEscapeKey, once the map event handlers
\* effect has registered it (layersLoaded); before that nothing listens.
HandleEscapeKey ==
  /\ popup' = IF layersLoaded THEN Dismissed.popup ELSE popup
  /\ newTreeCoordinates' = IF layersLoaded THEN Dismissed.newTreeCoordinates
                           ELSE newTreeCoordinates
  /\ isFormVisible' = IF layersLoaded THEN Dismissed.isFormVisible ELSE isFormVisible
  /\ last' = Event("escape", NoReq, Dismissable)
  /\ UNCHANGED << startVars, lifeVars, modeVars, hoverVars, tapVars, treeLocations, srcData, nextId, viewport,
                  inflight, hlVars, vtVars >>

----------------------------------------------------------------------------
(* Unmount: the cleanups of the effects *)

\* The load map effect's cleanup: map.remove() drops every handler registered on
\* the map; the window's handlers are not the map's.
MapRemove(l) == [e \in DOMAIN l |-> IF e = "keydown" THEN l[e] ELSE 0]

\* The map event handlers effect's cleanup.  Its off calls name the touchstart
\* and dblclick handlers that were registered; mouseenter and mouseleave are
\* named with new arrow functions, mousedown with handleMapTouch (handleMapClick
\* was registered), and zoomstart and the window's keydown are not named at all.
MapHandlersCleanup(l) == IF layersLoaded THEN Off(l, {"touchstart", "dblclick"}) ELSE l

\* The popup effect's cleanup.
PopupCleanup(l) == IF layersLoaded THEN Off(l, PopupHandlers) ELSE l

\* The App unmounts: the cleanups run in the order of the effects.  The visible
\* trees and highlighted-tree cleanups take their debounced listeners off (a
\* pending timer is not cancelled) and reset the filters.
Unmount ==
  /\ mounted
  /\ mounted' = FALSE
  /\ listeners' = PopupCleanup(MapHandlersCleanup(MapRemove(listeners)))
  /\ vtTimer' = FALSE
  /\ vtOrphans' = IF vtTimer THEN vtOrphans + 1 ELSE vtOrphans
  /\ vtOrphans' <= MaxOrphans
  /\ hlTimer' = FALSE
  /\ hlOrphans' = IF hlTimer THEN [hlOrphans EXCEPT ![highlightedTree] = @ + 1]
                  ELSE hlOrphans
  /\ \A k \in Names : hlOrphans'[k] <= MaxOrphans
  /\ SetHL(HighlightCleanup(HL, highlightedTree))
  /\ last' = Event("unmount", NoReq, listeners)
  /\ UNCHANGED << startVars, modeVars, hoverVars, tapVars, treeLocations, srcData, nextId,
                  viewport, editVars, highlightedTree, isTreeListVisible, visibleTrees,
                  vtRuns >>

----------------------------------------------------------------------------
(* Edits: add and remove *)

AddRequest(common_name, cell, source, captured) ==
  [op |-> "add", id |-> 0, common_name |-> common_name, cell |-> cell,
   source |-> source, captured |-> captured]

RemoveRequest(locationId, removedBy, captured) ==
  [op |-> "remove", id |-> locationId, common_name |-> Blank, cell |-> 0,
   source |-> removedBy, captured |-> captured]

\* NewTreeForm.handleSubmit: the required fields
FormValid(common_name, source) == common_name # Blank /\ source # <<>>

\* handleAddTreeSubmit up to its await: the body sent by sendAddLocation
SubmittedTree(common_name, cell, source, captured) ==
  AddRequest(common_name, cell, trimEnd(source), captured)

\* The form's Submit button with the fields as the user left them
HandleSubmit(common_name, source) ==
  /\ isFormVisible
  /\ IF FormValid(common_name, source)
     THEN /\ Len(inflight) < MaxInFlight
          /\ inflight' = Append(inflight,
               SubmittedTree(common_name, newTreeCoordinates, source, treeLocations))
          /\ last' = Event("addSent", inflight'[Len(inflight')], <<>>)
     ELSE /\ last' = Event("alert", NoReq, <<>>)
          /\ UNCHANGED inflight
  /\ UNCHANGED << startVars, lifeVars, modeVars, hoverVars, tapVars, treeLocations, srcData, nextId, viewport, popup,
                  isFormVisible, newTreeCoordinates, hlVars, vtVars >>

\* removeTree up to its await: what the prompt's answer makes of the request
RemovedBy(answer) == trimEnd(answer)

\* The popup's close button: the popup closes, and removeTree(locationId) asks
\* for a name.
HandlePopupButtonClose(answer) ==
  /\ layersLoaded /\ PointerFree
  /\ popup.open
  /\ popup' = NoPopup
  /\ IF Truthy(answer)
     THEN /\ Len(inflight) < MaxInFlight
          /\ inflight' = Append(inflight,
               RemoveRequest(popup.id, RemovedBy(answer), popup.captured))
          /\ last' = Event("removeSent", inflight'[Len(inflight')], <<>>)
     ELSE /\ last' = Event("removeDeclined", NoReq, treeLocations)
          /\ UNCHANGED inflight
  /\ UNCHANGED << startVars, lifeVars, modeVars, hoverVars, tapVars, treeLocations, srcData, nextId, viewport,
                  isFormVisible, newTreeCoordinates, hlVars, vtVars >>

Without(s, i) == SubSeq(s, 1, i - 1) \o SubSeq(s, i + 1, Len(s))

\* setTreeLocations after a create that succeeded
AddSucceeded(captured, addedTree) == Append(captured, treeToFeature(addedTree))

\* A bug: an optimistic feature is left in the store when the create fails.
AddFailedKeepsPhantom(locations, req) ==
  Append(locations, Feature(0, req.common_name, req.cell))

\* the catch of handleAddTreeSubmit: the store after a create that failed
AddFailed(locations, req) == locations

\* A bug: the removed feature is kept.
RemoveSucceededKeepsAll(captured, locationId) == captured

\* setTreeLocations after a remove that succeeded
RemoveSucceeded(captured, locationId) ==
  SelectSeq(captured, LAMBDA feature : feature.location_id # locationId)

\* A bug: the feature is dropped although the remove failed.
RemoveFailedDropsFeature(locations, req) ==
  SelectSeq(locations, LAMBDA feature : feature.location_id # req.id)

\* removeTree rejects at its await: the store after a remove that failed
RemoveFailed(locations, req) == locations

\* A bug: the source is not fed anew.
DataChangedNotFed(locations) == srcData

\* The data-change listener effect: the source is fed the new treeLocations.
DataChanged(locations) == locations

\* How the promise of handleAddTreeSubmit settles: its catch logs the error and
\* returns, so the promise is fulfilled whether the create succeeded or not.
handleAddTreeSubmitOutcome(ok) == IF ok THEN "fulfilled" ELSE "fulfilled"

\* How the promise of removeTree settles: it rejects when sendRemoveLocation
\* throws, and handlePopupButtonClose, which called it, neither awaits nor catches.
removeTreeOutcome(ok) == IF ok THEN "fulfilled" ELSE "unhandledRejection"

\* A bug: the form is hidden whatever the backend answers.
FormAfterAddHides(ok, visible) == FALSE

\* handleAddTreeSubmit after its await: setIsFormVisible(false) is reached only
\* when sendAddLocation has not thrown.
FormAfterAdd(ok, visible) == IF ok THEN FALSE ELSE visible

\* POST /trees answers request i: 2xx with the canonical tree, or a failure.
AddResponse(i, ok) ==
  /\ i \in 1..Len(inflight) /\ inflight[i].op = "add"
  /\ inflight' = Without(inflight, i)
  /\ IF ok
     THEN /\ nextId <= MaxId
          /\ nextId' = nextId + 1
          /\ treeLocations' = AddSucceeded(inflight[i].captured,
               [location_id |-> nextId, common_name |-> inflight[i].common_name,
                cell |-> inflight[i].cell])
          /\ last' = Settled("addOk", [inflight[i] EXCEPT !.id = nextId], treeLocations,
                             handleAddTreeSubmitOutcome(TRUE))
     ELSE /\ treeLocations' = AddFailed(treeLocations, inflight[i])
          /\ last' = Settled("addFailed", inflight[i], treeLocations,
                             handleAddTreeSubmitOutcome(FALSE))
          /\ UNCHANGED nextId
  /\ isFormVisible' = FormAfterAdd(ok, isFormVisible)
  /\ srcData' = DataChanged(treeLocations')
  /\ UNCHANGED << startVars, lifeVars, modeVars, hoverVars, tapVars, viewport, popup, newTreeCoordinates,
                  hlVars, vtVars >>

\* PUT /trees/remove/{id} answers request i: 2xx, or a failure.
RemoveResponse(i, ok) ==
  /\ i \in 1..Len(inflight) /\ inflight[i].op = "remove"
  /\ inflight' = Without(inflight, i)
  /\ IF ok
     THEN /\ treeLocations' = RemoveSucceeded(inflight[i].captured, inflight[i].id)
          /\ last' = Settled("removeOk", inflight[i], treeLocations,
                             removeTreeOutcome(TRUE))
     ELSE /\ treeLocations' = RemoveFailed(treeLocations, inflight[i])
          /\ last' = Settled("removeFailed", inflight[i], treeLocations,
                             removeTreeOutcome(FALSE))
  /\ srcData' = DataChanged(treeLocations')
  /\ UNCHANGED << startVars, lifeVars, modeVars, hoverVars, tapVars, nextId, viewport, popup, isFormVisible,
                  newTreeCoordinates, hlVars, vtVars >>

----------------------------------------------------------------------------
(* The older App (src/unnamed/part_002): map modes and hover popups.  Its     *)
(* summary panel and highlight are left out; the pointer is a mouse.          *)

\* map.on("load", ...): the locations are fetched, stored and fed to the source.
\* The older App keeps no flag of it; mapLoaded stands for "this handler has
\* run".
VariantLoad(locations) ==
  /\ ~mapLoaded
  /\ mapLoaded' = TRUE
  /\ treeLocations' = locations
  /\ srcData' = locations
  /\ nextId' = Len(locations) + 1
  /\ last' = Event("variantLoad", NoReq, <<>>)
  /\ UNCHANGED << dataLoaded, layersLoaded, lifeVars, modeVars, hoverVars, tapVars, viewport, editVars,
                  hlVars, vtVars >>

\* The form is rendered while mapMode === ADD_MODE && isFormVisible; it covers
\* the map and the mode buttons.
FormShown == mapMode = ADD_MODE /\ isFormVisible

AddListeners == {"click addTree", "touchend addTree"}
RemoveListeners == {"click removeTree", "touchend removeTree"}

\* A bug: the cleanup takes no listener off.
ModeCleanupKeepsAll(l) == l

\* The mapMode effect's cleanup: the four off calls.
ModeCleanup(l) == (l \ RemoveListeners) \ AddListeners

\* The mapMode effect's body.
ModeMount(l, mode) ==
  IF mode = ADD_MODE THEN l \cup AddListeners
  ELSE IF mode = DELETE_MODE THEN l \cup RemoveListeners
  ELSE l

\* setMapMode(mode): the effect re-runs when mapMode has changed.
SetMapMode(mode) ==
  /\ mapMode' = mode
  /\ modeListeners' = IF mode = mapMode THEN modeListeners
                      ELSE ModeMount(ModeCleanup(modeListeners), mode)

\* updateMapMode
updateMapMode(mode, toMode) == IF mode = toMode THEN NORMAL_MODE ELSE toMode

\* What a handler of the older App finds: the mode and the listeners.
Moding == [mapMode |-> mapMode, modeListeners |-> modeListeners]

\* The "add" or the "remove" button
UpdateMapMode(toMode) ==
  /\ ~FormShown
  /\ SetMapMode(updateMapMode(mapMode, toMode))
  /\ last' = Event("mode", [NoReq EXCEPT !.id = toMode], Moding)
  /\ UNCHANGED << startVars, lifeVars, hoverVars, tapVars, treeLocations, srcData, nextId,
                  viewport, editVars, hlVars, vtVars >>

\* addTree: a click on the map at cell c while the add listeners are registered
AddTree(c) ==
  /\ mapLoaded /\ ~FormShown
  /\ "click addTree" \in modeListeners
  /\ newTreeCoordinates' = c
  /\ isFormVisible' = TRUE
  /\ last' = Event("modeAdd", [NoReq EXCEPT !.cell = c], Moding)
  /\ UNCHANGED << startVars, lifeVars, modeVars, hoverVars, tapVars, treeLocations, srcData,
                  nextId, viewport, popup, inflight, hlVars, vtVars >>

\* handleAddTreeCancel of the older App
HandleAddTreeCancelMode ==
  /\ FormShown
  /\ newTreeCoordinates' = 0
  /\ isFormVisible' = FALSE
  /\ SetMapMode(NORMAL_MODE)
  /\ last' = Event("modeCancel", NoReq, Moding)
  /\ UNCHANGED << startVars, lifeVars, hoverVars, tapVars, treeLocations, srcData, nextId,
                  viewport, popup, inflight, hlVars, vtVars >>

\* handleAddTreeSubmit of the older App, up to its await
HandleAddTreeSubmitMode(common_name, source) ==
  /\ FormShown
  /\ FormValid(common_name, source)
  /\ Len(inflight) < MaxInFlight
  /\ inflight' = Append(inflight,
       AddRequest(common_name, newTreeCoordinates, source, treeLocations))
  /\ last' = Event("modeAddSent", inflight'[Len(inflight')], Moding)
  /\ UNCHANGED << startVars, lifeVars, modeVars, hoverVars, tapVars, treeLocations, srcData,
                  nextId, viewport, popup, isFormVisible, newTreeCoordinates, hlVars, vtVars >>

\* handleAddTreeSubmit of the older App resumes: POST /trees answers request i.
AddResponseMode(i, ok) ==
  /\ i \in 1..Len(inflight) /\ inflight[i].op = "add"
  /\ inflight' = Without(inflight, i)
  /\ IF ok
     THEN /\ nextId <= MaxId
          /\ nextId' = nextId + 1
          /\ treeLocations' = AddSucceeded(inflight[i].captured,
               [location_id |-> nextId, common_name |-> inflight[i].common_name,
                cell |-> inflight[i].cell])
          /\ isFormVisible' = FALSE
          /\ SetMapMode(NORMAL_MODE)
          /\ last' = Event("modeAddOk", [inflight[i] EXCEPT !.id = nextId], Moding)
     ELSE /\ last' = Event("modeAddFailed", inflight[i], Moding)
          /\ UNCHANGED << nextId, treeLocations, isFormVisible, modeVars >>
  /\ srcData' = DataChanged(treeLocations')
  /\ UNCHANGED << startVars, lifeVars, hoverVars, tapVars, viewport, popup,
                  newTreeCoordinates, hlVars, vtVars >>

\* removeTree of the older App, up to its await: a click on the point f while
\* the remove listeners are registered, and the prompt's answer.  The listener
\* is the removeTree of the render that set the mode; the store has not changed
\* since, because every change of the store comes with setMapMode(NORMAL_MODE).
RemoveTreeMode(f, answer) ==
  /\ ~FormShown
  /\ "click removeTree" \in modeListeners
  /\ PointItem(f) \in Range(RenderedPoints(srcData, viewport))
  /\ IF Truthy(answer)
     THEN /\ Len(inflight) < MaxInFlight
          /\ inflight' = Append(inflight,
               RemoveRequest(f.location_id, answer, treeLocations))
          /\ last' = Event("modeRemoveSent", inflight'[Len(inflight')], Moding)
     ELSE /\ last' = Event("modeRemoveDeclined", NoReq, Moding)
          /\ UNCHANGED inflight
  /\ UNCHANGED << startVars, lifeVars, modeVars, hoverVars, tapVars, treeLocations, srcData,
                  nextId, viewport, popup, isFormVisible, newTreeCoordinates, hlVars, vtVars >>

\* removeTree of the older App resumes: PUT /trees/remove/{id} answers request
\* i; when it fails, sendRemoveLocation throws and removeTree ends there.
RemoveResponseMode(i, ok) ==
  /\ i \in 1..Len(inflight) /\ inflight[i].op = "remove"
  /\ inflight' = Without(inflight, i)
  /\ IF ok
     THEN /\ treeLocations' = RemoveSucceeded(inflight[i].captured, inflight[i].id)
          /\ SetMapMode(NORMAL_MODE)
          /\ last' = Event("modeRemoveOk", inflight[i], Moding)
     ELSE /\ last' = Event("modeRemoveFailed", inflight[i], Moding)
          /\ UNCHANGED << treeLocations, modeVars >>
  /\ srcData' = DataChanged(treeLocations')
  /\ UNCHANGED << startVars, lifeVars, hoverVars, tapVars, nextId, viewport, popup,
                  isFormVisible, newTreeCoordinates, hlVars, vtVars >>

\* createTreePopup of the older App
createTreePopup(id) == [open |-> TRUE, id |-> id]

\* What a mousemove over a point finds: the feature the popup is keyed to, 0
\* when it is closed.
Hovering == [from |-> IF popupRef.open THEN popupRef.id ELSE 0]

\* handlePointMovement: a mousemove over the point f.  The popup is created
\* unless currentPopupLocation is f's location_id.
HandlePointMovement(f) ==
  /\ ~FormShown
  /\ PointItem(f) \in Range(RenderedPoints(srcData, viewport))
  /\ pointer' = f.location_id
  /\ IF currentPopupLocation # f.location_id
     THEN /\ currentPopupLocation' = f.location_id
          /\ popupRef' = createTreePopup(f.location_id)
     ELSE UNCHANGED << currentPopupLocation, popupRef >>
  /\ last' = Event("hoverMove", [NoReq EXCEPT !.id = f.location_id], Hovering)
  /\ UNCHANGED << startVars, lifeVars, modeVars, tapVars, treeLocations, srcData, nextId,
                  viewport, editVars, hlVars, vtVars, leaveTimers >>

\* handlePointLeave: the mouse leaves the points; setTimeout(removeTreePopup, 50).
HandlePointLeave ==
  /\ ~FormShown
  /\ pointer # 0
  /\ pointer' = 0
  /\ leaveTimers < MaxTimers
  /\ leaveTimers' = leaveTimers + 1
  /\ last' = Event("hoverLeave", [NoReq EXCEPT !.id = pointer], <<>>)
  /\ UNCHANGED << startVars, lifeVars, modeVars, tapVars, treeLocations, srcData, nextId,
                  viewport, editVars, hlVars, vtVars, currentPopupLocation, popupRef >>

\* A timer of handlePointLeave fires: removeTreePopup.  The history keeps the
\* mousemove that came right before it.
LeaveTimerFire ==
  /\ leaveTimers > 0
  /\ leaveTimers' = leaveTimers - 1
  /\ popupRef' = NoHoverPopup
  /\ currentPopupLocation' = 0
  /\ last' = IF last.op = "hoverMove" THEN [last EXCEPT !.op = "hoverTimer"]
              ELSE Event("hoverTimer", NoReq, [from |-> 0])
  /\ UNCHANGED << startVars, lifeVars, modeVars, tapVars, treeLocations, srcData, nextId,
                  viewport, editVars, hlVars, vtVars, pointer >>

----------------------------------------------------------------------------
(* Specifications *)

\* What GET /trees may answer when a cluster is to outlive a removal: three
\* trees at one place.
ClusterLoads ==
  { << Feature(1, "oak", 1), Feature(2, "maple", 1), Feature(3, "maple", 1) >> }

\* What GET /trees may answer when two clusters are to be on screen: two trees
\* at each of two places.
TwoClusterLoads ==
  { << Feature(1, "oak", 1), Feature(2, "maple", 1),
       Feature(3, "oak", 2), Feature(4, "maple", 2) >> }

StartWith(loads) ==
  \/ MapLoad
  \/ \E locations \in loads : FetchData(locations)

View == \E v \in Viewports : MoveEnd(v)

Highlight ==
  \/ \E treeName \in Names : HandleTreeListClick(treeName)
  \/ HlTimerFire
  \/ \E k \in Names : HlOrphanFire(k)
  \/ HlLookupDone

Summary ==
  \/ TogglePanel
  \/ VtTimerFire
  \/ VtOrphanFire
  \/ VtLookupDone

AddWith(cells, names, texts) ==
  \/ \E c \in cells : HandleDoubleTouch(c)
  \/ HandleAddTreeCancel
  \/ HandleEscapeKey
  \/ \E common_name \in names, source \in texts : HandleSubmit(common_name, source)
  \/ \E i \in 1..MaxInFlight, ok \in BOOLEAN : AddResponse(i, ok)

RemoveWith(answers) ==
  \/ \E f \in Range(srcData) : HandlePointEntry(f)
  \/ HandleMapClick
  \/ HandleEscapeKey
  \/ \E answer \in answers : HandlePopupButtonClose(answer)
  \/ \E i \in 1..MaxInFlight, ok \in BOOLEAN : RemoveResponse(i, ok)

\* The whole program.
Next ==
  \/ StartWith(InitialLoads \cup ClusterLoads)
  \/ View
  \/ Highlight
  \/ Summary
  \/ AddWith(Cells, Names \cup {Blank}, Texts)
  \/ RemoveWith(Texts \cup {NoText})

Spec == Init /\ [][Next]_vars

\* Adding trees alone, at the first place: the map stays where it starts, nothing
\* is selected and nothing is removed.
NextAdd ==
  \/ StartWith(InitialLoads)
  \/ AddWith({1}, Names \cup {Blank}, Texts)

SpecAdd == Init /\ [][NextAdd]_vars

\* Removing trees alone.
NextRemove ==
  \/ StartWith(InitialLoads \cup ClusterLoads)
  \/ RemoveWith(Texts \cup {NoText})

SpecRemove == Init /\ [][NextRemove]_vars

\* The summary panel alone: no edits, nothing selected.
NextSummary ==
  \/ StartWith(InitialLoads \cup ClusterLoads)
  \/ View
  \/ Summary

SpecSummary == Init /\ [][NextSummary]_vars

\* Selection and highlight with the summary panel (whose entries are what can
\* be selected), under zooming in and out over the whole map; no edits.
ZoomView == \E v \in { w \in Viewports : w.cells = Cells } : MoveEnd(v)

NextHighlight ==
  \/ StartWith(ClusterLoads)
  \/ ZoomView
  \/ Highlight
  \/ Summary

SpecHighlight == Init /\ [][NextHighlight]_vars

\* Selection and highlight under zooming in and out, with the summary panel
\* opened once and left open; no edits.
NextSelect ==
  \/ StartWith(ClusterLoads)
  \/ ZoomView
  \/ Highlight
  \/ ~isTreeListVisible /\ TogglePanel
  \/ VtTimerFire
  \/ VtLookupDone

SpecSelect == Init /\ [][NextSelect]_vars

\* Selection and highlight over two clusters while one tree of the second place
\* is removed: the panel is opened once, zoomed in, and its summary is left as
\* it is, and a name is clicked only when no highlight timer is pending; the
\* popup is opened on the full store before anything is selected, the removal is
\* confirmed with a name.
NextPartial ==
  \/ StartWith(TwoClusterLoads)
  \/ ZoomView
  \/ ~hlTimer /\ \E treeName \in Names : HandleTreeListClick(treeName)
  \/ HlTimerFire
  \/ HlLookupDone
  \/ ~isTreeListVisible /\ viewport.zoom = "near" /\ TogglePanel
  \/ \E f \in Range(srcData) :
        /\ f.cell = 2 /\ ~popup.open /\ inflight = <<>> /\ treeLocations \in TwoClusterLoads
        /\ highlightedTree = Null
        /\ HandlePointEntry(f)
  \/ HandlePopupButtonClose(<<"b">>)
  \/ \E i \in 1..MaxInFlight, ok \in BOOLEAN : RemoveResponse(i, ok)

SpecPartial == Init /\ [][NextPartial]_vars

\* The summary panel over views in which the first place lies on a tile seam or
\* not, and over a view with nothing on screen; no edits, nothing selected.
TileViewports == [zoom : Zooms, cells : {Cells, {}}, seam : {{}, {1}}]

NextTiles ==
  \/ StartWith(InitialLoads)
  \/ \E v \in TileViewports : MoveEnd(v)
  \/ Summary

SpecTiles == Init /\ [][NextTiles]_vars

\* Gestures on the map: touches and double clicks on the trees (at the first
\* place), on their cluster when zoomed out, and on the empty map; the form
\* they open is cancelled.
NextGesture ==
  \/ StartWith(InitialLoads)
  \/ ZoomView
  \/ \E gap \in TapGaps, currentPoint \in TapPoints, c \in Cells :
        HandleMapTouch(gap, currentPoint, c)
  \/ \E c \in Cells : HandleDoubleTouch(c)
  \/ HandleAddTreeCancel

SpecGesture == Init /\ [][NextGesture]_vars

\* The Escape key among what it dismisses: popups on the trees, the add form,
\* with the panel shown and a name selected or not.
NextEscape ==
  \/ StartWith(InitialLoads)
  \/ TogglePanel
  \/ \E treeName \in Names : HandleTreeListClick(treeName)
  \/ \E f \in Range(srcData) : HandlePointEntry(f)
  \/ HandleMapClick
  \/ \E c \in Cells : HandleDoubleTouch(c)
  \/ HandleAddTreeCancel
  \/ HandleEscapeKey

SpecEscape == Init /\ [][NextEscape]_vars

\* One thing at a time: the user clicks only when no computation is suspended,
\* no timer is pending and no request is unanswered, and moves the map only when
\* no computation is suspended and no timer is pending, which is also when the
\* backend's answers arrive.  Trees are removed, with a name given or the prompt
\* cancelled.
Quiet ==
  /\ hlRuns = <<>> /\ vtRuns = <<>>
  /\ ~hlTimer /\ ~vtTimer
  /\ vtOrphans = 0 /\ \A k \in Names : hlOrphans[k] = 0

Idle == Quiet /\ inflight = <<>>

NextSequential ==
  \/ StartWith(ClusterLoads)
  \/ Quiet /\ View
  \/ Idle /\ \E treeName \in Names : HandleTreeListClick(treeName)
  \/ HlTimerFire
  \/ HlLookupDone
  \/ Idle /\ TogglePanel
  \/ VtTimerFire
  \/ VtLookupDone
  \/ Idle /\ \E f \in Range(srcData) : HandlePointEntry(f)
  \/ Idle /\ \E answer \in { <<"b">>, NoText } : HandlePopupButtonClose(answer)
  \/ Quiet /\ \E i \in 1..MaxInFlight, ok \in BOOLEAN : RemoveResponse(i, ok)

SpecSequential == Init /\ [][NextSequential]_vars

\* Edits among the passes that read the source: a tree is added or removed while
\* the summary and the highlight are computed.  The user acts only when no
\* computation is suspended, no timer is pending and no request is unanswered;
\* the backend answers at any time.
NextFeed ==
  \/ StartWith(InitialLoads)
  \/ Quiet /\ ZoomView
  \/ Idle /\ \E treeName \in Names : HandleTreeListClick(treeName)
  \/ HlTimerFire
  \/ HlLookupDone
  \/ Idle /\ TogglePanel
  \/ VtTimerFire
  \/ VtLookupDone
  \/ Idle /\ HandleDoubleTouch(1)
  \/ HandleSubmit("maple", <<"b">>)
  \/ \E i \in 1..MaxInFlight, ok \in BOOLEAN : AddResponse(i, ok)
  \/ Idle /\ \E f \in Range(srcData) : HandlePointEntry(f)
  \/ HandlePopupButtonClose(<<"b">>)
  \/ \E i \in 1..MaxInFlight, ok \in BOOLEAN : RemoveResponse(i, ok)

SpecFeed == Init /\ [][NextFeed]_vars

\* Every handler, one thing at a time: the user acts only when no computation is
\* suspended, no timer is pending and no request is unanswered, and the backend
\* answers when no computation is suspended and no timer is pending.  The
\* gestures are the edits and those that edit nothing: selection, the panel,
\* zooming, popups, two touches 150 ms apart on the trees or on the empty map,
\* clicks on the map, the form's Cancel, the Escape key.
NextFrame ==
  \/ StartWith(InitialLoads)
  \/ Quiet /\ ZoomView
  \/ Idle /\ \E treeName \in Names : HandleTreeListClick(treeName)
  \/ HlTimerFire
  \/ HlLookupDone
  \/ Idle /\ TogglePanel
  \/ VtTimerFire
  \/ VtLookupDone
  \/ Idle /\ clock <= PageLoad + 150
          /\ \E c \in Cells : HandleMapTouch(150, NoTap.point, c)
  \/ Idle /\ HandleMapClick
  \/ HandleAddTreeCancel
  \/ HandleEscapeKey
  \/ Idle /\ HandleSubmit("maple", <<"b">>)
  \/ Quiet /\ \E i \in 1..MaxInFlight, ok \in BOOLEAN : AddResponse(i, ok)
  \/ Idle /\ \E f \in Range(srcData) : HandlePointEntry(f)
  \/ Idle /\ HandlePopupButtonClose(<<"b">>)
  \/ Quiet /\ \E i \in 1..MaxInFlight, ok \in BOOLEAN : RemoveResponse(i, ok)

SpecFrame == Init /\ [][NextFrame]_vars

\* The older App, its modes and edits: the pointer opens no hover popup, and
\* the user sends an edit only when none is unanswered.
NextVariant ==
  \/ \E locations \in InitialLoads : VariantLoad(locations)
  \/ \E m \in {ADD_MODE, DELETE_MODE} : UpdateMapMode(m)
  \/ \E c \in Cells : AddTree(c)
  \/ HandleAddTreeCancelMode
  \/ inflight = <<>> /\ HandleAddTreeSubmitMode("maple", <<"b">>)
  \/ \E i \in 1..MaxInFlight, ok \in BOOLEAN : AddResponseMode(i, ok)
  \/ inflight = <<>> /\ \E f \in Range(treeLocations), answer \in {<<"b">>, NoText} :
                           RemoveTreeMode(f, answer)
  \/ \E i \in 1..MaxInFlight, ok \in BOOLEAN : RemoveResponseMode(i, ok)

SpecVariant == Init /\ [][NextVariant]_vars

\* The older App, its hover popups in every mode: no edits.
NextHover ==
  \/ \E locations \in ClusterLoads : VariantLoad(locations)
  \/ \E m \in {ADD_MODE, DELETE_MODE} : UpdateMapMode(m)
  \/ \E f \in Range(srcData) : HandlePointMovement(f)
  \/ HandlePointLeave
  \/ LeaveTimerFire

SpecHover == Init /\ [][NextHover]_vars

\* The life of the App: it starts, is used, and unmounts; nothing of it runs
\* after that.
NextTeardown ==
  \/ mounted /\ NextEscape
  \/ Unmount

SpecTeardown == Init /\ [][NextTeardown]_vars

----------------------------------------------------------------------------
(* Properties *)

LocationIds(locations) == { locations[i].location_id : i \in 1..Len(locations) }

NoHighlightPending ==
  /\ hlRuns = <<>>
  /\ ~hlTimer
  /\ \A k \in Names : hlOrphans[k] = 0

\* C1: whenever no highlight computation is suspended and no debounce timer is
\* pending, the point filter names exactly the selected key, and matches nothing
\* when nothing is selected.
HighlightFollowsSelection ==
  (layersLoaded /\ NoHighlightPending) =>
     pointFilter = (IF highlightedTree = Null THEN Blank ELSE highlightedTree)

\* The clusters on screen and whether a cluster holds a leaf named k.
VisibleClusterIds == Range(ItemIds(RenderedClusters(srcData, viewport)))

HasLeafNamed(clusterId, k) ==
  \E f \in Range(CellMembers(srcData, clusterId)) : f.common_name = k

\* C2: once the viewport has settled or the store has changed, with key k
\* selected, a cluster on screen is in the cluster filter if and only if one of
\* its leaves has common_name k.
AtomicHighlight ==
  (layersLoaded /\ Idle /\ highlightedTree # Null) =>
     \A c \in VisibleClusterIds :
        c \in clusterFilter <=> HasLeafNamed(c, highlightedTree)

\* C3: a highlightTree call applies its filters only if the key it was started
\* for is still the selected one and no newer viewport has settled since it
\* read its clusters.
StaleHighlightDiscarded ==
  last.op = "hlApplied" =>
     /\ last.req.key = highlightedTree
     /\ last.req.view = viewport \/ hlTimer

\* updateVisibleTrees run to its end on one viewport and one feature set.
RECURSIVE Completed(_, _)
Completed(vt, data) ==
  IF vt.vtRuns = <<>> THEN vt.visibleTrees
  ELSE Completed(updateVisibleTreesResume(vt, data), data)

SummaryOf(data, v) ==
  Completed(updateVisibleTrees([visibleTrees |-> <<>>, vtRuns |-> <<>>], data, v), data)

NoSummaryPending == vtRuns = <<>> /\ ~vtTimer /\ vtOrphans = 0

\* C4: once every updateVisibleTrees call has finished and no timer is pending,
\* the summary shown is the one of the latest settled viewport.
LatestSummaryWins ==
  (layersLoaded /\ isTreeListVisible /\ NoSummaryPending) =>
     visibleTrees = SummaryOf(srcData, viewport)

\* C5: a create that fails leaves the store exactly as it was: no phantom
\* feature.
OptimisticRollback ==
  last.op = "addFailed" => treeLocations = last.before

OptimisticRollbackWitness ==
  /\ last.op = "addFailed"
  /\ treeLocations # <<>>
  /\ last.req.captured = treeLocations

\* C6: after a create that succeeds, the store is the store the form was
\* submitted on plus exactly the tree the server returned, and the source has
\* been fed that store.
AddSuccess ==
  last.op = "addOk" =>
     /\ treeLocations = Append(last.req.captured,
                               Feature(last.req.id, last.req.common_name, last.req.cell))
     /\ last.req.id \notin LocationIds(last.req.captured)
     /\ srcData = treeLocations

AddSuccessWitness ==
  /\ last.op = "addOk"
  /\ inflight = <<>>
  /\ last.before = last.req.captured
  /\ Len(treeLocations) = Len(last.before) + 1

RemoveFailureKeepsStore ==
  last.op = "removeFailed" =>
     /\ treeLocations = last.before
     /\ last.req.id \in LocationIds(last.before) => last.req.id \in LocationIds(treeLocations)

RemoveFailureWitness ==
  /\ last.op = "removeFailed"
  /\ last.req.id \in LocationIds(treeLocations)

\* Two requests for the same thing: the same feature to remove, or the same
\* tree to add at the same place.
SameTarget(a, b) ==
  /\ a.op = b.op
  /\ a.id = b.id
  /\ a.common_name = b.common_name
  /\ a.cell = b.cell

\* C9: no two requests in flight are for the same feature.
OneEditPerFeature ==
  \A i, j \in 1..Len(inflight) : i # j => ~SameTarget(inflight[i], inflight[j])

\* C10: no create is in flight with an empty common_name or an empty source.
AddValidatedBeforeSend ==
  \A i \in 1..Len(inflight) :
     inflight[i].op = "add" =>
        inflight[i].common_name # Blank /\ inflight[i].source # <<>>

\* C11: no remove is in flight with an empty removed_by, and a prompt that was
\* declined or left empty leaves the store as it was.
RemoveNeedsActor ==
  /\ \A i \in 1..Len(inflight) :
        inflight[i].op = "remove" => inflight[i].source # <<>>
  /\ last.op = "removeDeclined" => treeLocations = last.before

\* C12: a create or a remove that failed remotely reaches the caller as an
\* error outcome: it is neither swallowed nor left as an unhandled rejection.
EditFailuresSurfaced ==
  last.op \in {"addFailed", "removeFailed"} => last.outcome = "error"

\* Timers of debounced functions still to fire: the mounted effect's and those
\* of effects that were cleaned up.
RECURSIVE PendingOrphans(_)
PendingOrphans(names) ==
  IF names = {} THEN 0
  ELSE LET k == CHOOSE n \in names : TRUE
       IN  hlOrphans[k] + PendingOrphans(names \ {k})

PendingHighlightTimers == (IF hlTimer THEN 1 ELSE 0) + PendingOrphans(Names)

PendingSummaryTimers == (IF vtTimer THEN 1 ELSE 0) + vtOrphans

\* C13: a burst of moveend/zoomend events, each within the debounce window of
\* the one before, leaves one recomputation to fire per debounced consumer: a
\* timer armed by an event of the burst is pending only while the burst lasts,
\* so no two timers of one consumer are ever pending together.
DebounceCoalesces ==
  /\ PendingHighlightTimers <= 1
  /\ PendingSummaryTimers <= 1

\* C14: a debounce timer that was pending when its effect was cleaned up never
\* fires its recomputation.
TeardownCancels ==
  last.op \notin {"hlOrphan", "vtOrphan"}

\* C15: a touch on the empty map opens the add form at the place touched if and
\* only if the remembered tap is less than 200 ms and more than 0 ms older and
\* within 10 px of it on both axes; otherwise no form opens and this touch is
\* the remembered tap.
DoubleTapWindow ==
  (last.op = "touch" /\ ~last.before.onFeature) =>
     LET g == last.before
         age == g.time - g.lastTap.time
         within == /\ age < 200 /\ age > 0
                   /\ Distance(g.point.x, g.lastTap.point.x) <= 10
                   /\ Distance(g.point.y, g.lastTap.point.y) <= 10
     IN  /\ isFormVisible <=> within
         /\ within => newTreeCoordinates = g.cell
         /\ ~within => lastTapRef = [point |-> g.point, time |-> g.time]

\* The spec's first example: 150 ms and 5 px apart, the form opens.
DoubleTapWindowWitness ==
  /\ last.op = "touch" /\ ~last.before.onFeature
  /\ last.before.time - last.before.lastTap.time = 150
  /\ Distance(last.before.point.x, last.before.lastTap.point.x) = 5
  /\ last.before.point.y = last.before.lastTap.point.y
  /\ isFormVisible

\* C16: a touch or a double click that lands on a feature or a cluster neither
\* opens the add form nor changes the remembered tap.
FeatureTapsIgnored ==
  (last.op \in {"touch", "doubleTouch"} /\ last.before.onFeature) =>
     /\ isFormVisible = last.before.formWas
     /\ lastTapRef = last.before.lastTap

\* C17: after the Escape key, in any state, no popup is open, the coordinates of
\* the add in progress are empty and the form is hidden; the store and the
\* selection are as they were.
EscapeDismisses ==
  last.op = "escape" =>
     /\ ~popup.open
     /\ newTreeCoordinates = 0
     /\ ~isFormVisible
     /\ treeLocations = last.before.treeLocations
     /\ highlightedTree = last.before.highlightedTree

EscapeDismissesWitness ==
  /\ last.op = "escape"
  /\ last.before.popup.open
  /\ last.before.isFormVisible /\ last.before.newTreeCoordinates # 0
  /\ last.before.highlightedTree # Null
  /\ treeLocations # <<>>

\* C18: a click on entry k clears the selection when k was selected and selects
\* k otherwise; the selection is always null or one name.
ToggleSemantics ==
  /\ highlightedTree \in Names \cup {Null}
  /\ last.op = "select" =>
        highlightedTree = (IF last.before.was = last.req.common_name
                           THEN Null ELSE last.req.common_name)

ToggleSemanticsWitness ==
  /\ last.op = "select"
  /\ last.before.was = last.req.common_name
  /\ highlightedTree = Null

\* C19, as claimed: two clicks on entry k in succession leave nothing selected.
SelectTwiceClears ==
  (last.op = "select" /\ last.before.twice) => highlightedTree = Null

\* C19, amended: two clicks on entry k in succession leave nothing selected,
\* unless k was selected before the first: then k is selected again.
SelectTwiceRestores ==
  (last.op = "select" /\ last.before.twice) =>
     highlightedTree = (IF last.before.start = last.req.common_name
                        THEN last.req.common_name ELSE Null)

SelectTwiceRestoresWitness ==
  /\ last.op = "select" /\ last.before.twice
  /\ last.before.start = last.req.common_name
  /\ highlightedTree = last.req.common_name

\* C20: a click that clears the selection leaves both highlight filters
\* matching nothing.
ClearingResetsFilters ==
  (last.op = "select" /\ last.before.was # Null /\ highlightedTree = Null) =>
     pointFilter = Blank /\ clusterFilter = {}

ClearingResetsFiltersWitness ==
  /\ last.op = "select" /\ highlightedTree = Null
  /\ last.before.pointFilter # Blank /\ last.before.clusterFilter # {}
  /\ pointFilter = Blank /\ clusterFilter = {}

\* C21: the two filters are written together, and only when the last cluster
\* lookup of a highlightTree call has been answered.  A call that starts or that
\* goes on to its next lookup leaves both filters as they were (a call that
\* finds no cluster on screen has nothing to look up and sets both at once); a
\* lookup that fails leaves both as they were; the continuation of the last
\* lookup sets the point filter to the call's key and the cluster filter to the
\* clusters that call found a leaf of that key in.
NoPartialHighlight ==
  LET met == last.before
      unchanged == pointFilter = met.pointFilter /\ clusterFilter = met.clusterFilter
      sync(key) == /\ RenderedClusters(srcData, viewport) = <<>>
                   /\ pointFilter = key /\ clusterFilter = {}
  IN  /\ last.op \in {"hlLookup", "hlRejected"} => unchanged
      /\ last.op \in {"hlTimer", "hlOrphan"} => unchanged \/ sync(last.req.common_name)
      /\ last.op = "select" =>
            \/ unchanged
            \/ pointFilter = Blank /\ clusterFilter = {}
            \/ sync(highlightedTree)
      /\ last.op = "hlApplied" =>
            LET run == met.runs[1]
                found == { run.answer.leaves[i].common_name : i \in 1..Len(run.answer.leaves) }
            IN  /\ Len(run.todo) = 1
                /\ pointFilter = run.key
                /\ clusterFilter = Range(run.acc) \cup
                                     (IF run.key \in found THEN { Head(run.todo) } ELSE {})

\* A lookup failed while both filters were set for a key: they stay as they were.
NoPartialHighlightWitness ==
  /\ last.op = "hlRejected"
  /\ pointFilter \in Names /\ clusterFilter # {}
  /\ pointFilter = last.before.pointFilter

\* The features of the source with common_name g.
Named(data, g) == { f \in Range(data) : f.common_name = g }

\* C22: the summary counts no feature twice: the count of a group is at most
\* the number of features of that name.
SummaryCountsOnce ==
  \A i \in 1..Len(visibleTrees) :
     Len(visibleTrees[i].members) <= Cardinality(Named(srcData, visibleTrees[i].name))

\* The step just taken ended an updateVisibleTrees call with setVisibleTrees: the
\* continuation of its last lookup, or a call that met no cluster and ran to its
\* end at once; and the view that call read its features from.
Recomputed ==
  \/ last.op = "vtApplied"
  \/ /\ last.op \in {"panel", "vtTimer", "vtOrphan"}
     /\ layersLoaded
     /\ last.op = "panel" => isTreeListVisible
     /\ RenderedClusters(srcData, viewport) = <<>>

RecomputedView == IF last.op = "vtApplied" THEN last.req.view ELSE viewport

\* The leaves on screen: the unclustered points and the leaves of the clusters.
VisibleLeaves(data, v) == { f \in Range(data) : f.cell \in v.cells }

\* C23: in the summary a recomputation produces, the count of every group is
\* the number of distinct leaves on screen of that name, and every name with a
\* leaf on screen has a group.
SummaryCounts ==
  Recomputed =>
     LET leaves == VisibleLeaves(srcData, RecomputedView)
     IN  /\ \A i \in 1..Len(visibleTrees) :
               Len(visibleTrees[i].members) =
                  Cardinality(Named(srcData, visibleTrees[i].name) \cap leaves)
         /\ \A f \in leaves : f.common_name \in SummaryNames

\* The common_names in the order in which they arrive from the queries: those of
\* the unclustered points, then those of the leaves of each cluster.
RECURSIVE LeafNames(_, _)
LeafNames(data, clusters) ==
  IF clusters = <<>> THEN <<>>
  ELSE LET leaves == CellMembers(data, Head(clusters).id)
       IN  [i \in 1..Len(leaves) |-> leaves[i].common_name]
           \o LeafNames(data, Tail(clusters))

Arrivals(data, v) ==
  LET points == RenderedPoints(data, v)
  IN  [i \in 1..Len(points) |-> points[i].common_name]
      \o LeafNames(data, RenderedClusters(data, v))

FirstArrival(arrivals, g) ==
  CHOOSE i \in 1..Len(arrivals) :
     arrivals[i] = g /\ \A j \in 1..(i - 1) : arrivals[j] # g

EmptyViewEmptySummary ==
  (Recomputed /\ VisibleLeaves(srcData, RecomputedView) = {}) => visibleTrees = <<>>

\* The map is moved off the trees while their summary is shown.
EmptyViewEmptySummaryWitness ==
  /\ last.op = "vtTimer" /\ Recomputed
  /\ srcData # <<>> /\ viewport.cells = {}
  /\ last.before.visibleTrees # <<>>
  /\ visibleTrees = <<>>

\* C26: a viewport that settles while the panel is shown starts a recomputation
\* of the summary (its debounce timer is pending), and so does every create or
\* remove that succeeded, the panel shown or hidden: right after it a call is
\* suspended at a lookup or has set the summary of the new store.
SummaryTriggers ==
  /\ (last.op = "moveend" /\ layersLoaded /\ isTreeListVisible) => vtTimer
  /\ (last.op \in {"addOk", "removeOk"} /\ layersLoaded /\ vtRuns = <<>>) =>
        visibleTrees = SummaryOf(srcData, viewport)

\* The call most lately suspended, of each kind.
LatestHlRun == hlRuns[Len(hlRuns)]
LatestVtRun == vtRuns[Len(vtRuns)]

OnlyEditsMutate ==
  [][treeLocations' # treeLocations => last'.op \in {"fetch", "addOk", "removeOk"}]_vars

\* A double tap on the empty map has opened the form, with a name selected in
\* the panel, over the store a remove has left: it is the store the touch met.
OnlyEditsMutateWitness ==
  /\ last.op = "touch" /\ ~last.before.formWas /\ isFormVisible
  /\ Len(treeLocations) = 1 /\ srcData = treeLocations
  /\ highlightedTree # Null /\ isTreeListVisible

\* C29: after a remove that succeeded the feature is not in what the source is
\* fed, and no feature that was out of the store before is fed to it again: what
\* was removed stays out of the later summary and highlight computations.
RemovedStayExcluded ==
  last.op = "removeOk" =>
     /\ last.req.id \notin LocationIds(srcData)
     /\ LocationIds(srcData) \subseteq LocationIds(last.before)

\* C30: a press on the point of the feature whose popup is open leaves the popup
\* as it is: it is not placed, written or added anew.
PopupReentryNoOp ==
  (last.op = "popup" /\ last.before.same) => last.outcome = "kept"

\* C31: the hover popup is closed once the pointer has left the points and the
\* close timers have run out; and when the pointer has moved onto a feature g
\* while the popup was keyed to another feature, the popup is open and keyed
\* to g, also after a close timer that fires next.
PopupReplaceAndClose ==
  /\ (pointer = 0 /\ leaveTimers = 0) => ~popupRef.open
  /\ (/\ last.op \in {"hoverMove", "hoverTimer"}
      /\ last.req.id # 0
      /\ last.before.from \notin {0, last.req.id})
     => (popupRef.open /\ popupRef.id = last.req.id)

\* C32: once the App has unmounted and its effects' cleanups have run, no
\* handler that the effects registered is still registered, on the map or on
\* the window.
SymmetricTeardown == ~mounted => \A e \in DOMAIN listeners : listeners[e] = 0

\* The whole world at zoom z, no tile seam across it.
World(z) == [zoom |-> z, cells |-> Cells, seam |-> {}]

\* The location ids of the leaves getClusterFeatures answers for each cluster.
RECURSIVE LeafIds(_, _)
LeafIds(data, clusters) ==
  IF clusters = <<>> THEN <<>>
  ELSE ItemIds(getClusterFeatures(data, Head(clusters).id).leaves)
       \o LeafIds(data, Tail(clusters))

\* What a query of the whole world returns at zoom z: the ids of the points,
\* then those of the leaves of every cluster.
Returned(data, z) ==
  ItemIds(RenderedPoints(data, World(z))) \o LeafIds(data, RenderedClusters(data, World(z)))

NoLostUpdate ==
  /\ last.op = "addOk" =>
        LocationIds(treeLocations) = LocationIds(last.before) \cup {last.req.id}
  /\ last.op = "removeOk" =>
        LocationIds(treeLocations) = LocationIds(last.before) \ {last.req.id}

\* The creates in flight.
AddCalls(requests) == Len(SelectSeq(requests, LAMBDA r : r.op = "add"))

\* C35: the step in which a create succeeds hides the form; the step in which a
\* create fails leaves the form and its coordinates as they were and sends
\* nothing; and a create is sent only by the form's submit.
AddFormAfterSubmit ==
  [][/\ last'.op = "addOk" => ~isFormVisible'
     /\ last'.op = "addFailed" =>
           /\ isFormVisible' = isFormVisible
           /\ newTreeCoordinates' = newTreeCoordinates
           /\ AddCalls(inflight') = AddCalls(inflight) - 1
     /\ AddCalls(inflight') > AddCalls(inflight) => last'.op = "addSent"]_vars

\* A create has failed with the form on screen: the form is still there with the
\* place it was opened for, and nothing is in flight.
AddFormAfterSubmitWitness ==
  /\ last.op = "addFailed"
  /\ isFormVisible /\ newTreeCoordinates = last.req.cell
  /\ inflight = <<>>

\* A handler of the map, popup, summary or highlight effects is registered, or
\* a computation one of them started is under way.
HandlersRegistered ==
  \/ \E e \in DOMAIN listeners : listeners[e] > 0
  \/ hlTimer \/ vtTimer
  \/ hlRuns # <<>> \/ vtRuns # <<>>

\* C36: the layers are loaded only when the map has loaded and the data has been
\* fetched, and once loaded they are not added again; handlers are registered
\* only while layersLoaded holds, and each of them once.
StartupOrdering ==
  /\ [](layersLoaded => (mapLoaded /\ dataLoaded))
  /\ [](HandlersRegistered => layersLoaded)
  /\ [](\A e \in DOMAIN listeners : listeners[e] <= 1)
  /\ [][(layersLoaded => layersLoaded')
        /\ (~layersLoaded /\ layersLoaded' => srcData' = treeLocations')]_vars

\* The data came first and the map's load event last: the layers are loaded and
\* the handlers registered in that step.
StartupOrderingWitness ==
  /\ last.op = "load"
  /\ layersLoaded /\ srcData # <<>>
  /\ \A e \in DOMAIN listeners : listeners[e] = 1

\* C37: a touch that is a double tap (less than 200 ms and more than 0 ms after
\* the remembered tap, within 10 px of it) or that lands on a feature or a
\* cluster leaves the remembered tap as it was, and so does a double click; a
\* touch changes it only to its own point and time.
TapRecordFrame ==
  /\ last.op = "touch" =>
        LET g == last.before
            age == g.time - g.lastTap.time
            double == /\ age < 200 /\ age > 0
                      /\ Distance(g.point.x, g.lastTap.point.x) <= 10
                      /\ Distance(g.point.y, g.lastTap.point.y) <= 10
        IN  /\ (g.onFeature \/ double) => lastTapRef = g.lastTap
            /\ lastTapRef # g.lastTap =>
                  lastTapRef = [point |-> g.point, time |-> g.time]
  /\ last.op = "doubleTouch" => lastTapRef = last.before.lastTap

\* A double tap on the empty map 150 ms after the first tap: the form opens and
\* the first tap is still the remembered one.
TapRecordFrameWitness ==
  /\ last.op = "touch" /\ ~last.before.onFeature
  /\ isFormVisible /\ ~last.before.formWas
  /\ lastTapRef = last.before.lastTap
  /\ last.before.time = lastTapRef.time + 150

\* C38: in the older App the add listeners are on the map exactly while mapMode
\* is ADD_MODE and the remove listeners exactly while it is DELETE_MODE; a mode
\* button leaves the mode it names for NORMAL_MODE and sets it otherwise; and
\* a create that succeeded, a cancelled form and a remove that succeeded end
\* in NORMAL_MODE.
ModeListenersAgree ==
  /\ modeListeners \cap AddListeners = IF mapMode = ADD_MODE THEN AddListeners ELSE {}
  /\ modeListeners \cap RemoveListeners =
        IF mapMode = DELETE_MODE THEN RemoveListeners ELSE {}
  /\ last.op = "mode" =>
        mapMode = IF last.before.mapMode = last.req.id THEN NORMAL_MODE ELSE last.req.id
  /\ last.op \in {"modeAddOk", "modeCancel", "modeRemoveOk"} => mapMode = NORMAL_MODE

\* A remove succeeds after the user has gone over to the add mode: the add
\* listeners that were on the map are off.
ModeListenersAgreeWitness ==
  /\ last.op = "modeRemoveOk"
  /\ last.before.mapMode = ADD_MODE /\ last.before.modeListeners = AddListeners
  /\ mapMode = NORMAL_MODE /\ modeListeners = {}

====
